---- MODULE Spec2Model ----
(***************************************************************************)
(* MCP4728 driver (src/MCP4728.py): the byte frames the driver hands to    *)
(* the I2C transport, the decoding of the 24-byte read-back report, and    *)
(* the order of the transport calls each method issues.                    *)
(*                                                                         *)
(* Voltages are real numbers in the source.  Here a voltage is an integer  *)
(* number of ticks, one tick being 1/Den of a millivolt, so that           *)
(* value/4.095*4095 (the voltage in millivolts) is the rational value/Den. *)
(***************************************************************************)
EXTENDS Integers, Sequences, FiniteSets

VARIABLES
    address,   \* self._address: the configured device address
    pc,        \* "new" before construction, "ready" after, "failed" if __init__ raised
    bus,       \* every call made on self._bus, in order (the transport's view)
    calls,     \* every method call made on the driver, with its outcome
    console    \* what print() wrote

vars == <<address, pc, bus, calls, console>>

----------------------------------------------------------------------------
\* Bounds of the model

\* ticks per millivolt: the resolution of the voltages tried
Den == 4
\* millivolts tried below 0 V
UnderMilli == 2
\* millivolts tried above full scale
OverMilli == 2
\* method calls made on a driver after its construction
MaxOps == 2

----------------------------------------------------------------------------
\* Python's integer operators on non-negative integers

RECURSIVE BitAnd(_, _)
BitAnd(a, b) ==
    IF a = 0 \/ b = 0 THEN 0
    ELSE (a % 2) * (b % 2) + 2 * BitAnd(a \div 2, b \div 2)

RECURSIVE BitOr(_, _)
BitOr(a, b) ==
    IF a = 0 THEN b
    ELSE IF b = 0 THEN a
    ELSE (IF a % 2 = 1 \/ b % 2 = 1 THEN 1 ELSE 0) + 2 * BitOr(a \div 2, b \div 2)

Shr(a, k) == a \div (2 ^ k)

Shl(a, k) == a * (2 ^ k)

Max(a, b) == IF a >= b THEN a ELSE b

Min(a, b) == IF a <= b THEN a ELSE b

----------------------------------------------------------------------------
\* Voltage to 12-bit code

\* the 4095 of value/4.095*4095 and of min(4095, ...)
FullScaleCode == 4095

\* the 4.095 V of value/4.095*4095, in millivolts
FullScaleMilli == 4095

\* The whole-millivolt voltages k/1000 for which the IEEE-754 double
\* value/4.095*4095 falls just short of k, so that int() yields k - 1.
FloatShort ==
    { 43, 51, 86, 102, 141, 172, 204, 282, 344, 345, 408, 563, 564, 565, 688,
      689, 690, 816, 1009, 1011, 1013, 1015, 1017, 1126, 1128, 1130, 1251,
      1253, 1255, 1376, 1378, 1380, 1505, 1507, 1632, 2018, 2022, 2026, 2030,
      2034, 2127, 2131, 2252, 2256, 2260, 2377, 2381, 2385, 2502, 2506, 2510,
      2627, 2631, 2635, 2752, 2756, 2760, 2881, 2885, 3010, 3014, 3139, 3264,
      4036, 4039, 4044, 4052, 4060, 4068 }

\* int((value/4.095*4095)): int() truncates toward zero
int_scaled(value) ==
    LET num == value * FullScaleCode
        den == Den * FullScaleMilli
    IN  IF num < 0 THEN -((-num) \div den)
        ELSE IF num % den = 0 /\ (num \div den) \in FloatShort
             THEN (num \div den) - 1
        ELSE num \div den

\* Fault: the upper limit of the clamp left out
clamp_no_upper(digital_val) == Max(0, digital_val)

\* max(0, min(4095, digital_val))
clamp(digital_val) == Max(0, Min(FullScaleCode, digital_val))

digital_val(value) == clamp(int_scaled(value))

\* (digital_val & 0x0f00) >> 8
upper_bits(d) == Shr(BitAnd(d, 3840), 8)

\* (digital_val & 0xff)
lower_bits(d) == BitAnd(d, 255)

\* upper |= 0x90: Vref internal (bit 7), gain x2 (bit 4)
VrefGainMask == 144

----------------------------------------------------------------------------
\* The message each write method builds, one loop iteration per voltage

\* Fault: fast write setting the Vref and gain bits as the other writes do
RECURSIVE fast_msg_masked(_)
fast_msg_masked(voltages) ==
    IF voltages = <<>> THEN <<>>
    ELSE LET d == digital_val(Head(voltages))
         IN  <<BitOr(upper_bits(d), VrefGainMask), lower_bits(d)>>
                 \o fast_msg_masked(Tail(voltages))

\* msg = [] ; msg.append(upper) ; msg.append(lower)
RECURSIVE fast_msg(_)
fast_msg(voltages) ==
    IF voltages = <<>> THEN <<>>
    ELSE LET d == digital_val(Head(voltages))
         IN  <<upper_bits(d), lower_bits(d)>> \o fast_msg(Tail(voltages))

\* Fault: upper |= 0x80, the gain bit forgotten
RECURSIVE eeprom_body_vref_only(_)
eeprom_body_vref_only(voltages) ==
    IF voltages = <<>> THEN <<>>
    ELSE LET d == digital_val(Head(voltages))
         IN  <<BitOr(upper_bits(d), 128), lower_bits(d)>>
                 \o eeprom_body_vref_only(Tail(voltages))

\* msg.append(upper | 0x90) ; msg.append(lower)
RECURSIVE eeprom_body(_)
eeprom_body(voltages) ==
    IF voltages = <<>> THEN <<>>
    ELSE LET d == digital_val(Head(voltages))
         IN  <<BitOr(upper_bits(d), VrefGainMask), lower_bits(d)>>
                 \o eeprom_body(Tail(voltages))

\* msg = [0x50] followed by the loop's appends
eeprom_msg(voltages) == <<80>> \o eeprom_body(voltages)

\* msg_hdr = [0x40,2,4,6]
msg_hdr == <<64, 2, 4, 6>>

\* msg.append(msg_hdr[itr]) ; msg.append(upper | 0x90) ; msg.append(lower) ; itr += 1
RECURSIVE multi_body(_, _)
multi_body(voltages, itr) ==
    IF voltages = <<>> THEN <<>>
    ELSE LET d == digital_val(Head(voltages))
         IN  <<msg_hdr[itr + 1], BitOr(upper_bits(d), VrefGainMask), lower_bits(d)>>
                 \o multi_body(Tail(voltages), itr + 1)

multi_msg(voltages) == multi_body(voltages, 0)

----------------------------------------------------------------------------
\* The transport (self._bus).  A call is logged whether it succeeds or raises;
\* ok = FALSE is the transport raising OSError.

\* Fault: a failed write tried once more
write_reg_retry(s, value, ok) ==
    LET t == [fn |-> "write_i2c_block_data", addr |-> s.address,
              cmd |-> Head(value), data |-> Tail(value), len |-> 0,
              ok |-> ok, ret |-> <<>>]
    IN  IF ok THEN Append(s.bus, t) ELSE Append(Append(s.bus, t), t)

\* self._bus.write_i2c_block_data(self._address, value[0], value[1:])
write_reg(s, value, ok) ==
    Append(s.bus, [fn |-> "write_i2c_block_data", addr |-> s.address,
                   cmd |-> Head(value), data |-> Tail(value), len |-> 0,
                   ok |-> ok, ret |-> <<>>])

\* self._bus.read_i2c_block_data(self._address, 0, length)
read_reg(s, length, ok, report) ==
    Append(s.bus, [fn |-> "read_i2c_block_data", addr |-> s.address,
                   cmd |-> 0, data |-> <<>>, len |-> length,
                   ok |-> ok, ret |-> IF ok THEN report ELSE <<>>])

\* self._bus.write_byte(addr, val)
write_byte(s, addr, val, ok) ==
    Append(s.bus, [fn |-> "write_byte", addr |-> addr,
                   cmd |-> -1, data |-> <<val>>, len |-> 0,
                   ok |-> ok, ret |-> <<>>])

\* The bytes a transport call puts on the wire after the address byte
Frame(t) == IF t.fn = "write_byte" THEN t.data ELSE <<t.cmd>> \o t.data

----------------------------------------------------------------------------
\* The methods, as effects on the driver s = [bus, console, address].
\* raised: the method ended with the transport's exception.

Effect(b, con, raised, slept, ret) ==
    [bus |-> b, console |-> con, raised |-> raised, slept |-> slept, ret |-> ret]

fast_write_DAC_voltages(s, voltages, ok) ==
    Effect(write_reg(s, fast_msg(voltages), ok), s.console, ~ok, FALSE, <<>>)

\* time.sleep(0.1) runs only when _write_reg returned
sequential_write_EEPROM(s, voltages, ok) ==
    Effect(write_reg(s, eeprom_msg(voltages), ok), s.console, ~ok, ok, <<>>)

multi_write(s, voltages, ok) ==
    Effect(write_reg(s, multi_msg(voltages), ok), s.console, ~ok, FALSE, <<>>)

\* Fault: the reset byte written to the device's own address
general_call_reset_to_device(s, ok) ==
    Effect(write_byte(s, s.address, 6, ok), s.console, ~ok, FALSE, <<>>)

general_call_reset(s, ok) ==
    Effect(write_byte(s, 0, 6, ok), s.console, ~ok, FALSE, <<>>)

general_call_wake_up(s, ok) ==
    Effect(write_byte(s, 0, 9, ok), s.console, ~ok, FALSE, <<>>)

\* Fault: the two gain bytes exchanged
set_x2_gain_swapped(s, status, ok) ==
    IF status THEN Effect(write_reg(s, <<192>>, ok), s.console, ~ok, FALSE, <<>>)
    ELSE IF ~status THEN Effect(write_reg(s, <<207>>, ok), s.console, ~ok, FALSE, <<>>)
    ELSE Effect(s.bus, Append(s.console, "Error setting gain"), FALSE, FALSE, <<>>)

set_x2_gain(s, status, ok) ==
    IF status THEN Effect(write_reg(s, <<207>>, ok), s.console, ~ok, FALSE, <<>>)
    ELSE IF ~status THEN Effect(write_reg(s, <<192>>, ok), s.console, ~ok, FALSE, <<>>)
    ELSE Effect(s.bus, Append(s.console, "Error setting gain"), FALSE, FALSE, <<>>)

set_internal_voltage_reference(s, status, ok) ==
    IF status THEN Effect(write_reg(s, <<143>>, ok), s.console, ~ok, FALSE, <<>>)
    ELSE IF ~status THEN Effect(write_reg(s, <<128>>, ok), s.console, ~ok, FALSE, <<>>)
    ELSE Effect(s.bus, Append(s.console, "Error setting reference voltage"),
                FALSE, FALSE, <<>>)

\* data[i] of a Python list
At(data, i) == data[i + 1]

\* for itr in [0,6,12,18]
GroupOffsets == <<0, 6, 12, 18>>

\* 4.095*(top+bottom)/4095, in ticks
volts(code) == (FullScaleMilli * Den * code) \div FullScaleCode

\* Fault: data[1+itr] & 0x1f, the gain bit taken into the code
dac_voltage_wide_mask(data) ==
    [j \in 1..4 |->
        LET itr == GroupOffsets[j]
            top == Shl(BitAnd(At(data, 1 + itr), 31), 8)
            bottom == At(data, 2 + itr)
        IN  volts(top + bottom)]

dac_voltage(data) ==
    [j \in 1..4 |->
        LET itr == GroupOffsets[j]
            top == Shl(BitAnd(At(data, 1 + itr), 15), 8)
            bottom == At(data, 2 + itr)
        IN  volts(top + bottom)]

eeprom_voltage(data) ==
    [j \in 1..4 |->
        LET itr == GroupOffsets[j]
            top == Shl(BitAnd(At(data, 4 + itr), 15), 8)
            bottom == At(data, 5 + itr)
        IN  volts(top + bottom)]

dac_gain(data) ==
    [j \in 1..4 |-> BitAnd(Shr(At(data, 1 + GroupOffsets[j]), 4), 1)]

dac_internal_voltage_reference(data) ==
    [j \in 1..4 |-> BitAnd(Shr(At(data, 1 + GroupOffsets[j]), 7), 1)]

get_dac_voltage(s, ok, report) ==
    Effect(read_reg(s, 24, ok, report), s.console, ~ok, FALSE,
           IF ok THEN dac_voltage(report) ELSE <<>>)

get_eeprom_voltage(s, ok, report) ==
    Effect(read_reg(s, 24, ok, report), s.console, ~ok, FALSE,
           IF ok THEN eeprom_voltage(report) ELSE <<>>)

get_dac_gain(s, ok, report) ==
    Effect(read_reg(s, 24, ok, report), s.console, ~ok, FALSE,
           IF ok THEN dac_gain(report) ELSE <<>>)

get_dac_internal_voltage_reference(s, ok, report) ==
    Effect(read_reg(s, 24, ok, report), s.console, ~ok, FALSE,
           IF ok THEN dac_internal_voltage_reference(report) ELSE <<>>)

\* Fault: the gain set before the EEPROM write
init_gain_first(s, failAt) ==
    LET e1 == set_x2_gain(s, TRUE, failAt # 1)
        s1 == [s EXCEPT !.bus = e1.bus, !.console = e1.console]
        e2 == sequential_write_EEPROM(s1, <<0, 0, 0, 0>>, failAt # 2)
        s2 == [s1 EXCEPT !.bus = e2.bus, !.console = e2.console]
        e3 == set_internal_voltage_reference(s2, TRUE, failAt # 3)
    IN  IF e1.raised THEN e1
        ELSE IF e2.raised THEN e2
        ELSE [e3 EXCEPT !.slept = e2.slept]

\* __init__: the three calls in order; an exception ends it.
\* failAt = i: the i-th transport call raises; failAt = 0: none does.
init(s, failAt) ==
    LET e1 == sequential_write_EEPROM(s, <<0, 0, 0, 0>>, failAt # 1)
        s1 == [s EXCEPT !.bus = e1.bus, !.console = e1.console]
        e2 == set_x2_gain(s1, TRUE, failAt # 2)
        s2 == [s1 EXCEPT !.bus = e2.bus, !.console = e2.console]
        e3 == set_internal_voltage_reference(s2, TRUE, failAt # 3)
    IN  IF e1.raised THEN e1
        ELSE IF e2.raised THEN [e2 EXCEPT !.slept = e1.slept]
        ELSE [e3 EXCEPT !.slept = e1.slept]

----------------------------------------------------------------------------
\* Inputs

\* MCP4728(address=0x60), and example.py's MCP4728(0x61)
Addresses == {96, 97}

\* m millivolts, in ticks
Milli(m) == m * Den

\* every voltage from UnderMilli below 0 V to OverMilli above 4.095 V
Ticks == (-Milli(UnderMilli)) .. Milli(FullScaleMilli + OverMilli)

\* the voltage q quarters of the range above v, wrapping around
Shifted(v, q) ==
    LET low == -Milli(UnderMilli)
        size == Cardinality(Ticks)
    IN  low + ((v - low + q * (size \div 4)) % size)

\* one list per voltage of Ticks on channel A; channels B, C and D hold the
\* voltages one, two and three quarters of the range further, so that every
\* channel is given every voltage
WideLists == { <<v, Shifted(v, 1), Shifted(v, 2), Shifted(v, 3)>> : v \in Ticks }

\* example.py's two lists, and one with a negative voltage, a voltage above
\* full scale, a fraction of a millivolt and one of FloatShort
ExampleLists ==
    { <<Milli(2100), 0, Milli(3500), Milli(4000)>>,
      <<Milli(500), Milli(3200), Milli(1800), Milli(2500)>>,
      <<-1, Milli(FullScaleMilli) + 1, 1, Milli(43)>> }

Codes == 0 .. FullScaleCode

\* A 24-byte report: channel k's DAC register holds code c under the status
\* nibble st (9: Vref internal, gain x2, as the write methods set it) and its
\* EEPROM the code 4095 - c; every other byte is fill.
Report(k, c, st, fill) ==
    [i \in 1..24 |->
        LET j == ((i - 1) \div 6) + 1
            pos == (i - 1) % 6
            e == FullScaleCode - c
        IN  IF j # k THEN fill
            ELSE IF pos = 1 THEN st * 16 + (c \div 256)
            ELSE IF pos = 2 THEN c % 256
            ELSE IF pos = 4 THEN st * 16 + (e \div 256)
            ELSE IF pos = 5 THEN e % 256
            ELSE fill]

WideReports == { Report(k, c, st, fill) : k \in 1..4, c \in Codes,
                                          st \in {9, 6}, fill \in {0, 255} }

ExampleReports == { Report(1, 2100, 9, 0), Report(3, 4095, 6, 255) }

----------------------------------------------------------------------------
\* The state machine

Self == [bus |-> bus, console |-> console, address |-> address]

CallRecord(op, voltages, status, b, e) ==
    [op |-> op, voltages |-> voltages, status |-> status,
     first |-> Len(b) + 1, n |-> Len(e.bus) - Len(b),
     outcome |-> IF e.raised THEN "OSError" ELSE "ok",
     slept |-> e.slept, ret |-> e.ret]

Init ==
    /\ address \in Addresses
    /\ pc = "new"
    /\ bus = <<>>
    /\ calls = <<>>
    /\ console = <<>>

\* A driver whose construction succeeded
InitReady ==
    \E a \in Addresses :
        LET e == init([bus |-> <<>>, console |-> <<>>, address |-> a], 0)
        IN  /\ address = a
            /\ pc = "ready"
            /\ bus = e.bus
            /\ calls = <<CallRecord("__init__", <<>>, FALSE, <<>>, e)>>
            /\ console = e.console

Ready == pc = "ready" /\ Len(calls) <= MaxOps

Call(op, voltages, status, e) ==
    /\ bus' = e.bus
    /\ console' = e.console
    /\ calls' = Append(calls, CallRecord(op, voltages, status, bus, e))
    /\ UNCHANGED <<address, pc>>

Construct(failAt) ==
    /\ pc = "new"
    /\ LET e == init(Self, failAt)
       IN  /\ bus' = e.bus
           /\ console' = e.console
           /\ calls' = Append(calls, CallRecord("__init__", <<>>, FALSE, bus, e))
           /\ pc' = IF e.raised THEN "failed" ELSE "ready"
    /\ UNCHANGED address

FastWrite(voltages, ok) ==
    /\ Ready
    /\ Call("fast_write_DAC_voltages", voltages, FALSE,
            fast_write_DAC_voltages(Self, voltages, ok))

SequentialWrite(voltages, ok) ==
    /\ Ready
    /\ Call("sequential_write_EEPROM", voltages, FALSE,
            sequential_write_EEPROM(Self, voltages, ok))

MultiWrite(voltages, ok) ==
    /\ Ready
    /\ Call("multi_write", voltages, FALSE, multi_write(Self, voltages, ok))

GeneralCallReset(ok) ==
    /\ Ready
    /\ Call("general_call_reset", <<>>, FALSE, general_call_reset(Self, ok))

GeneralCallWakeUp(ok) ==
    /\ Ready
    /\ Call("general_call_wake_up", <<>>, FALSE, general_call_wake_up(Self, ok))

SetX2Gain(status, ok) ==
    /\ Ready
    /\ Call("set_x2_gain", <<>>, status, set_x2_gain(Self, status, ok))

SetInternalVoltageReference(status, ok) ==
    /\ Ready
    /\ Call("set_internal_voltage_reference", <<>>, status,
            set_internal_voltage_reference(Self, status, ok))

GetDacVoltage(ok, report) ==
    /\ Ready
    /\ Call("get_dac_voltage", <<>>, FALSE, get_dac_voltage(Self, ok, report))

GetEepromVoltage(ok, report) ==
    /\ Ready
    /\ Call("get_eeprom_voltage", <<>>, FALSE, get_eeprom_voltage(Self, ok, report))

GetDacGain(ok, report) ==
    /\ Ready
    /\ Call("get_dac_gain", <<>>, FALSE, get_dac_gain(Self, ok, report))

GetDacInternalVoltageReference(ok, report) ==
    /\ Ready
    /\ Call("get_dac_internal_voltage_reference", <<>>, FALSE,
            get_dac_internal_voltage_reference(Self, ok, report))

Next ==
    \/ \E failAt \in 0..3 : Construct(failAt)
    \/ \E voltages \in ExampleLists, ok \in BOOLEAN : FastWrite(voltages, ok)
    \/ \E voltages \in ExampleLists, ok \in BOOLEAN : SequentialWrite(voltages, ok)
    \/ \E voltages \in ExampleLists, ok \in BOOLEAN : MultiWrite(voltages, ok)
    \/ \E ok \in BOOLEAN : GeneralCallReset(ok)
    \/ \E ok \in BOOLEAN : GeneralCallWakeUp(ok)
    \/ \E status \in BOOLEAN, ok \in BOOLEAN : SetX2Gain(status, ok)
    \/ \E status \in BOOLEAN, ok \in BOOLEAN : SetInternalVoltageReference(status, ok)
    \/ \E ok \in BOOLEAN, report \in ExampleReports : GetDacVoltage(ok, report)
    \/ \E ok \in BOOLEAN, report \in ExampleReports : GetEepromVoltage(ok, report)
    \/ \E ok \in BOOLEAN, report \in ExampleReports : GetDacGain(ok, report)
    \/ \E ok \in BOOLEAN, report \in ExampleReports :
           GetDacInternalVoltageReference(ok, report)

\* Construction, then up to MaxOps method calls
Spec == Init /\ [][Next]_vars

\* One voltage write on a constructed driver, over every voltage of Ticks
NextFrames ==
    \/ /\ Len(calls) < 2
       /\ \E voltages \in WideLists, ok \in BOOLEAN : FastWrite(voltages, ok)
    \/ /\ Len(calls) < 2
       /\ \E voltages \in WideLists, ok \in BOOLEAN : SequentialWrite(voltages, ok)
    \/ /\ Len(calls) < 2
       /\ \E voltages \in WideLists, ok \in BOOLEAN : MultiWrite(voltages, ok)

SpecFrames == InitReady /\ [][NextFrames]_vars

\* One read on a constructed driver, over every code on every channel
NextDecode ==
    \/ /\ Len(calls) < 2
       /\ \E ok \in BOOLEAN, report \in WideReports : GetDacVoltage(ok, report)
    \/ /\ Len(calls) < 2
       /\ \E ok \in BOOLEAN, report \in WideReports : GetEepromVoltage(ok, report)
    \/ /\ Len(calls) < 2
       /\ \E ok \in BOOLEAN, report \in WideReports : GetDacGain(ok, report)
    \/ /\ Len(calls) < 2
       /\ \E ok \in BOOLEAN, report \in WideReports : GetDacInternalVoltageReference(ok, report)

SpecDecode == InitReady /\ [][NextDecode]_vars

----------------------------------------------------------------------------
\* What the claims speak of

\* the transport calls method call c issued
Issued(c) == [i \in 1..c.n |-> bus[c.first + i - 1]]

VoltageWrites == {"fast_write_DAC_voltages", "sequential_write_EEPROM", "multi_write"}

Reads == {"get_dac_voltage", "get_eeprom_voltage", "get_dac_gain",
          "get_dac_internal_voltage_reference"}

\* where channel j's high byte stands in the frame f of a voltage write
HighAt(op, j) ==
    IF op = "fast_write_DAC_voltages" THEN 2 * j - 1
    ELSE IF op = "sequential_write_EEPROM" THEN 2 * j
    ELSE 3 * j - 1

\* the 12-bit code channel j carries in the frame f of a voltage write
FrameCode(op, f, j) == (f[HighAt(op, j)] % 16) * 256 + f[HighAt(op, j) + 1]

\* the voltage writes that reached the transport, as indices of calls
WriteCalls == { i \in 1..Len(calls) : calls[i].op \in VoltageWrites /\ calls[i].n = 1 }

Abs(x) == IF x < 0 THEN -x ELSE x

\* C1: the frame multi_write hands to the transport is 12 bytes, four triplets
\* in channel order, whose select bytes at positions 0, 3, 6 and 9 are 0x40,
\* 0x42, 0x44, 0x46.
C1_MultiWriteSelectBytes ==
    \A i \in 1..Len(calls) :
        calls[i].op = "multi_write" =>
            /\ calls[i].n = 1
            /\ LET f == Frame(bus[calls[i].first])
               IN  /\ Len(f) = 12
                   /\ <<f[1], f[4], f[7], f[10]>> = <<64, 66, 68, 70>>

\* C2: construction issues the EEPROM write of four zero voltages, then 0xCF,
\* then 0x8F, to the configured address and nothing else; a construction that
\* raises has issued a prefix of that sequence, so the gain byte never comes
\* before the EEPROM frame nor the reference byte before the gain byte.
C2_InitFrames == << <<80, 144, 0, 144, 0, 144, 0, 144, 0>>, <<207>>, <<143>> >>

C2_ConstructionSequence ==
    pc # "new" =>
        LET c == calls[1]
        IN  /\ c.op = "__init__"
            /\ c.first = 1
            /\ c.n <= 3
            /\ c.outcome = "ok" => c.n = 3
            /\ \A i \in 1..c.n :
                   /\ bus[i].fn = "write_i2c_block_data"
                   /\ bus[i].addr = address
                   /\ Frame(bus[i]) = C2_InitFrames[i]

C2_Witness ==
    /\ pc = "ready"
    /\ calls[1].outcome = "ok"
    /\ Frame(bus[1])[1] = 80
    /\ Frame(bus[2]) = <<207>>
    /\ Frame(bus[3]) = <<143>>

\* C3: the code every voltage write encodes for a voltage v is the integer
\* nearest to v in millivolts (v / 4.095 * 4095), clamped to [0, 4095].
C3_NearestCode ==
    \A i \in WriteCalls : \A j \in 1..4 :
        LET v == calls[i].voltages[j]
            code == FrameCode(calls[i].op, Frame(bus[calls[i].first]), j)
        IN  \E r \in {v \div Den, (v \div Den) + 1} :
                /\ 2 * Abs(r * Den - v) <= Den
                /\ code = (IF r < 0 THEN 0 ELSE IF r > 4095 THEN 4095 ELSE r)

\* C4: in every frame of a voltage write the code of every channel lies in
\* [0, 4095], is 0 for a negative voltage and 4095 for a voltage above 4.095 V,
\* and the call reaches the transport and fails only if the transport does.
C4_ClampedCode ==
    \A i \in 1..Len(calls) :
        calls[i].op \in VoltageWrites =>
            /\ calls[i].n = 1
            /\ calls[i].outcome = "OSError" => ~bus[calls[i].first].ok
            /\ \A j \in 1..4 :
                   LET v == calls[i].voltages[j]
                       code == FrameCode(calls[i].op, Frame(bus[calls[i].first]), j)
                   IN  /\ code \in 0..4095
                       /\ v < 0 => code = 0
                       /\ v > Milli(4095) => code = 4095

C4_Witness ==
    \E i \in WriteCalls : \E j, k \in 1..4 :
        /\ calls[i].outcome = "ok"
        /\ calls[i].voltages[j] > Milli(4095)
        /\ FrameCode(calls[i].op, Frame(bus[calls[i].first]), j) = 4095
        /\ calls[i].voltages[k] \in 1..(Milli(4095) - 1)

C4_WitnessNegative ==
    \E i \in WriteCalls : \E j \in 1..4 :
        /\ calls[i].voltages[j] < 0
        /\ FrameCode(calls[i].op, Frame(bus[calls[i].first]), j) = 0

\* C5: when bytes 6k+1 and 6k+2 of the report are the bytes the write encoder
\* makes for a code c (high = 0x90 | (c >> 8), low = c & 0xFF), get_dac_voltage
\* returns c millivolts at index k, get_dac_gain 1 and
\* get_dac_internal_voltage_reference 1; bytes 6k+4 and 6k+5 decode likewise
\* to the EEPROM voltage; gain and reference are bits 4 and 7 of byte 6k+1.
C5_DecodeRoundTrip ==
    \A i \in 1..Len(calls) :
        (calls[i].op \in Reads /\ calls[i].outcome = "ok") =>
            LET data == bus[calls[i].first].ret
                ret == calls[i].ret
            IN  /\ Len(data) = 24
                /\ \A k \in 0..3 :
                       LET dh == data[6 * k + 2]
                           dl == data[6 * k + 3]
                           eh == data[6 * k + 5]
                           el == data[6 * k + 6]
                       IN  /\ (calls[i].op = "get_dac_voltage" /\ dh \div 16 = 9)
                               => ret[k + 1] = Milli((dh - 144) * 256 + dl)
                           /\ (calls[i].op = "get_eeprom_voltage" /\ eh \div 16 = 9)
                               => ret[k + 1] = Milli((eh - 144) * 256 + el)
                           /\ calls[i].op = "get_dac_gain"
                               => /\ ret[k + 1] = (dh \div 16) % 2
                                  /\ dh \div 16 = 9 => ret[k + 1] = 1
                           /\ calls[i].op = "get_dac_internal_voltage_reference"
                               => /\ ret[k + 1] = (dh \div 128) % 2
                                  /\ dh \div 16 = 9 => ret[k + 1] = 1

C5_Witness ==
    \E i \in 1..Len(calls) :
        /\ calls[i].op = "get_dac_voltage"
        /\ calls[i].outcome = "ok"
        /\ bus[calls[i].first].ret[14] = 144 + 9
        /\ bus[calls[i].first].ret[15] = 41
        /\ calls[i].ret[3] = Milli(2345)

\* C6: fast write hands the transport one frame of 8 bytes, [highA, lowA, ...,
\* highD, lowD], each high byte being code >> 8 with bits 4..7 clear and each
\* low byte code & 0xFF: no command byte and no gain, reference or power-down
\* bit.
C6_FastWriteFrame ==
    \A i \in 1..Len(calls) :
        calls[i].op = "fast_write_DAC_voltages" =>
            /\ calls[i].n = 1
            /\ bus[calls[i].first].fn = "write_i2c_block_data"
            /\ LET f == Frame(bus[calls[i].first])
               IN  /\ Len(f) = 8
                   /\ \A j \in 1..4 :
                          LET code == digital_val(calls[i].voltages[j])
                          IN  /\ f[2 * j - 1] = code \div 256
                              /\ f[2 * j - 1] < 16
                              /\ f[2 * j] = code % 256

C6_Witness ==
    \E i \in 1..Len(calls) :
        /\ calls[i].op = "fast_write_DAC_voltages"
        /\ calls[i].voltages[1] = Milli(2100)
        /\ Frame(bus[calls[i].first])[1] = 8
        /\ Frame(bus[calls[i].first])[2] = 52

\* C7: the sequential EEPROM write frame is 9 bytes, 0x50 then the four
\* (high, low) pairs in channel order, and every high byte has bits 7 and 4
\* set and bits 5 and 6 clear.
C7_EepromFrame ==
    \A i \in 1..Len(calls) :
        calls[i].op = "sequential_write_EEPROM" =>
            /\ calls[i].n = 1
            /\ LET f == Frame(bus[calls[i].first])
               IN  /\ Len(f) = 9
                   /\ f[1] = 80
                   /\ \A j \in 1..4 :
                          LET code == digital_val(calls[i].voltages[j])
                              high == f[2 * j]
                          IN  /\ (high \div 128) % 2 = 1
                              /\ (high \div 64) % 2 = 0
                              /\ (high \div 32) % 2 = 0
                              /\ (high \div 16) % 2 = 1
                              /\ high % 16 = code \div 256
                              /\ f[2 * j + 1] = code % 256

C7_Witness ==
    \E i \in 1..Len(calls) :
        /\ calls[i].op = "sequential_write_EEPROM"
        /\ calls[i].voltages[1] = Milli(2100)
        /\ Frame(bus[calls[i].first]) [2] = 152
        /\ Frame(bus[calls[i].first]) [3] = 52

\* C8: set_x2_gain and set_internal_voltage_reference each issue one write of
\* a one-byte frame (0xCF / 0xC0, 0x8F / 0x80) and read nothing; consecutive
\* calls put their bytes on the bus with nothing in between; nothing is
\* printed.
C8_ConfigByte(op, status) ==
    IF op = "set_x2_gain" THEN (IF status THEN 207 ELSE 192)
    ELSE (IF status THEN 143 ELSE 128)

C8_SingleByteConfig ==
    /\ console = <<>>
    /\ \A i \in 1..Len(calls) :
           calls[i].op \in {"set_x2_gain", "set_internal_voltage_reference"} =>
               /\ calls[i].n = 1
               /\ calls[i].ret = <<>>
               /\ bus[calls[i].first].fn = "write_i2c_block_data"
               /\ bus[calls[i].first].ret = <<>>
               /\ Frame(bus[calls[i].first])
                      = <<C8_ConfigByte(calls[i].op, calls[i].status)>>
               /\ i < Len(calls) => calls[i + 1].first = calls[i].first + 1

C8_Witness ==
    \E i \in 2..(Len(calls) - 1) :
        /\ calls[i].op = "set_x2_gain" /\ calls[i].status
        /\ calls[i + 1].op = "set_x2_gain" /\ ~calls[i + 1].status
        /\ Frame(bus[calls[i].first]) = <<207>>
        /\ Frame(bus[calls[i].first + 1]) = <<192>>
        /\ Len(bus) = calls[i].first + 1

\* C9: general_call_reset writes the byte 0x06 and general_call_wake_up the
\* byte 0x09 to bus address 0x00, never to the configured address; every other
\* method addresses the configured address only, never address 0x00.
C9_GeneralCallAddress ==
    \A i \in 1..Len(calls) :
        LET c == calls[i]
        IN  IF c.op \in {"general_call_reset", "general_call_wake_up"}
            THEN /\ c.n = 1
                 /\ bus[c.first].fn = "write_byte"
                 /\ bus[c.first].addr = 0
                 /\ bus[c.first].addr # address
                 /\ Frame(bus[c.first])
                        = <<IF c.op = "general_call_reset" THEN 6 ELSE 9>>
            ELSE \A k \in 1..c.n :
                     /\ Issued(c)[k].addr = address
                     /\ Issued(c)[k].addr # 0

C9_Witness ==
    \E i, j \in 1..Len(calls) :
        /\ calls[i].op = "general_call_reset"
        /\ bus[calls[i].first].addr = 0
        /\ calls[j].op = "multi_write"
        /\ bus[calls[j].first].addr = address

\* C10: every method but the constructor issues exactly one transport call,
\* whether it succeeds or fails, and ends with the transport's failure when it
\* fails; the constructor stops at the first transport call that fails.
C10_NoRetryNoMask ==
    \A i \in 1..Len(calls) :
        LET c == calls[i]
        IN  /\ c.first + c.n - 1 <= Len(bus)
            /\ i < Len(calls) => calls[i + 1].first = c.first + c.n
            /\ i = Len(calls) => Len(bus) = c.first + c.n - 1
            /\ c.n >= 1
            /\ c.op # "__init__" => c.n = 1
            /\ c.op = "__init__" => c.n <= 3
            /\ \A k \in 1..(c.n - 1) : Issued(c)[k].ok
            /\ c.outcome = (IF Issued(c)[c.n].ok THEN "ok" ELSE "OSError")
            /\ (c.op = "__init__" /\ c.outcome = "ok") => c.n = 3

C10_Witness ==
    /\ Len(calls) = 2
    /\ calls[1].outcome = "ok"
    /\ calls[2].op = "fast_write_DAC_voltages"
    /\ calls[2].outcome = "OSError"
    /\ Len(bus) = 4
    /\ ~bus[4].ok

C10_WitnessInit ==
    /\ pc = "failed"
    /\ calls[1].outcome = "OSError"
    /\ Len(bus) = 2
    /\ Frame(bus[2]) = <<207>>
    /\ ~bus[2].ok

====
